---- MODULE Spec2Model ----
(***************************************************************************)
(* Startup and readiness of the Horse Tycoon front end.                    *)
(*                                                                         *)
(* The model follows the browser's execution model: one task (an event or  *)
(* timer callback) runs to completion, then every pending microtask (the   *)
(* continuation of an await) runs before the next task starts.  The        *)
(* position of the startup code is pc, the position of the asynchronous    *)
(* UIController.initialize() is uiPc; tasks (media events, timers, late    *)
(* DOM insertions) are enabled only when no microtask is pending.          *)
(***************************************************************************)
EXTENDS Integers, Sequences, FiniteSets, TLC

\* ---------------------------------------------------------------- bounds
\* Largest catalog the model enumerates (the catalog literal has 8 entries).
MaxAssets == 2
\* Most canplaythrough events that media elements emit again after their first.
MaxRefires == 1
\* Most elements of the surface that are absent when the page has loaded.
MaxMissing == 2
\* further calls of initialize() on the controller the constructor built
MaxInitialize == 1

\* ------------------------------------------------------ program constants
maxRetries == 5

screenIds == <<"loading", "mainMenu", "playerSetup", "gameUI">>

criticalElements == {"mainMenu", "playerSetup", "gameUI", "modal-container"}

\* The targets of the binding manifest, in the order setupEventListeners
\* tries them.
manifest == <<"newGameBtn", "loadGameBtn", "startGameBtn", ".difficulty-option",
              ".nav-btn", ".modal-close", "horseList">>

\* The .modal elements the page may hold inside #modal-container.
modalElements == {"horseDetailModal", "marketModal"}

Range(s) == {s[i] : i \in 1..Len(s)}

ScreenSet == Range(screenIds)
ManifestSet == Range(manifest)
\* The element showError looks up; it is not one of the container's .modal
\* elements, so showModal reaches it through its getElementById fallback.
errorModal == "errorModal"

Surface == ScreenSet \cup {"modal-container"} \cup modalElements \cup ManifestSet
              \cup {errorModal}
Styled == ScreenSet \cup modalElements \cup {errorModal}
Assets == 1..MaxAssets

VARIABLES
    \* the document
    dom,            \* ids (and selectors) that match an element
    display,        \* inline style.display of the screens and modals
    \* the media elements (environment)
    soundFiles,     \* number of entries of the catalog
    audio,          \* per entry: idle, loading, stalled, playable, error
    \* AssetLoader
    totalAssets, loadedAssets, loadingText,
    promise,        \* per entry: the promise loadSound returned
    allPromise,     \* Promise.all(loadPromises): state and rejecting entry
    loadAllResult,  \* the promise loadAllAssets returned to its caller
    \* startup
    pc,             \* position of the DOMContentLoaded handler / constructor
    gameManager,    \* a GameManager has been constructed
    game,           \* window.game has been assigned
    tickTimer, autosaveTimer, unloadHook,
    unsaved,        \* the GameManager holds changes that saveGame() has not persisted
    audioWired, musicStarted,
    \* UIController
    uiPc,           \* position of initialize()
    ready, initializationPromise, currentScreen,
    screens, modals,
    attached,       \* per manifest target: how many times its handler was added
    retryQueue, retryCount, retryInterval,
    consoleError,   \* what showScreen or showModal last wrote with console.error
    \* the services main.js calls into (environment)
    eventBus,       \* the default export of eventSystem.js: present, noOn, absent
    throwing,       \* the service functions that throw when they are called
    initializeCalls, \* further calls of initialize() made on the controller
    \* the audio wiring and the handlers of main.js
    handlers,       \* per game event: how many audio handlers are subscribed
    issued,         \* the audio commands the last emission or button event issued
    uncaught,       \* the last exception no try of main.js caught
    toast,          \* inline style.display of the success toast
    page            \* open, or unloading once beforeunload has been dispatched

domVars == <<dom, display>>
mediaVars == <<soundFiles, audio>>
loaderVars == <<totalAssets, loadedAssets, loadingText, promise, allPromise, loadAllResult>>
gameVars == <<gameManager, game, tickTimer, autosaveTimer, unloadHook, unsaved,
              audioWired, musicStarted>>
uiVars == <<uiPc, ready, initializationPromise, currentScreen, screens, modals,
            attached, retryQueue, retryCount, retryInterval, consoleError>>
envVars == <<eventBus, throwing, initializeCalls>>
runVars == <<handlers, issued, uncaught, toast, page>>
vars == <<domVars, mediaVars, loaderVars, pc, gameVars, uiVars, envVars, runVars>>

\* ------------------------------------------------------------ AssetLoader

\* Math.floor((loadedAssets / totalAssets) * 100); 0/0 is NaN.
Progress(loaded, total) ==
    IF total = 0 THEN [kind |-> "NaN", n |-> 0]
    ELSE [kind |-> "progress", n |-> (loaded * 100) \div total]

\* Promise.all over the entries' promises after entry i resolved.
AllAfterResolve(all, prom, i) ==
    IF all.state = "pending" /\ \A j \in 1..soundFiles : j = i \/ prom[j] = "resolved"
    THEN [state |-> "resolved", by |-> 0]
    ELSE all

\* Promise.all over the entries' promises after entry i rejected.
AllAfterReject(all, i) ==
    IF all.state = "pending" THEN [state |-> "rejected", by |-> i] ELSE all

\* What the catch of loadAllAssets hands to its caller.
CatchResult == "fulfilled"

\* showMainMenu: the inline display of every screen afterwards.  classes
\* tells which of the class selectors it queries ("screen",
\* "main-menu-screen") the page's screens carry; the alternative ids it
\* falls back to (loadingScreen, main-menu, ...) name no element of the page.
ShowMainMenuDisplay(d, classes) ==
    LET d1 == IF "loading" \in dom THEN [d EXCEPT !["loading"] = "none"] ELSE d
        d2 == IF "mainMenu" \in dom THEN [d1 EXCEPT !["mainMenu"] = "flex"] ELSE d1
        d3 == IF "screen" \in classes
              THEN [e \in Styled |-> IF e \in ScreenSet /\ e \in dom THEN "none" ELSE d2[e]]
              ELSE d2
    IN  IF "main-menu-screen" \in classes /\ "mainMenu" \in dom
        THEN [d3 EXCEPT !["mainMenu"] = "flex"]
        ELSE d3

\* ----------------------------------------------------------- UIController

\* A check for the loading screen alone.
InitializeScreensThrows_LoadingOnly(d) == "loading" \notin d

\* initializeScreens throws when one of the four screens is absent.
InitializeScreensThrows(d) == \E s \in ScreenSet : s \notin d

InitializeScreensDisplay_KeepsOthers(disp, d) ==
    [e \in Styled |->
        IF e = "loading" /\ e \in d /\ ~InitializeScreensThrows(d) THEN "block" ELSE disp[e]]

\* initializeScreens: every screen found is registered and hidden; the
\* loading screen is shown only when none is missing.
InitializeScreensDisplay(disp, d) ==
    [e \in Styled |->
        IF e \in ScreenSet /\ e \in d
        THEN (IF e = "loading" /\ ~InitializeScreensThrows(d) THEN "block" ELSE "none")
        ELSE disp[e]]

InitializeModalsThrows_Never(d) == FALSE

\* initializeModals throws without the container or without any .modal in it.
InitializeModalsThrows(d) == "modal-container" \notin d \/ modalElements \cap d = {}

\* A critical list that also names a control of the manifest.
VerifyCriticalThrows_WithControl(d) == \E c \in criticalElements \cup {"horseList"} : c \notin d

\* verifyCriticalElements throws when a critical identifier is absent.
VerifyCriticalThrows(d) == \E c \in criticalElements : c \notin d

\* safeAddEvent / safeAddEventAll: TRUE when the handler was added.
SafeAddEvent(target, d) == target \in d

\* A queue that holds every entry of the manifest, attached or not.
InitialRetryQueue_All(d) == manifest

\* The retry queue setupEventListeners builds: the manifest entries whose
\* first attempt failed, in manifest order.
InitialRetryQueue(d) ==
    LET Failed(b) == ~SafeAddEvent(b, d) IN SelectSeq(manifest, Failed)

\* A splice that removes nothing.
Splice_Keep(q, i) == q

Splice(q, i) == SubSeq(q, 1, i - 1) \o SubSeq(q, i + 1, Len(q))

\* A callback that tries only the last entry of the queue.
RetryLoop_LastOnly(q, i, att, d) ==
    IF i = 0 \/ ~SafeAddEvent(q[i], d) THEN [queue |-> q, attached |-> att]
    ELSE [queue |-> Splice(q, i), attached |-> [att EXCEPT ![q[i]] = @ + 1]]

\* A loop that steps over the entry next to one it has just spliced out.
RECURSIVE RetryLoop_SkipsAfterSplice(_, _, _, _)
RetryLoop_SkipsAfterSplice(q, i, att, d) ==
    IF i <= 0 THEN [queue |-> q, attached |-> att, tried |-> <<>>]
    ELSE LET rest == IF SafeAddEvent(q[i], d)
                     THEN RetryLoop_SkipsAfterSplice(Splice(q, i), i - 2,
                                                     [att EXCEPT ![q[i]] = @ + 1], d)
                     ELSE RetryLoop_SkipsAfterSplice(q, i - 1, att, d)
         IN  [rest EXCEPT !.tried = <<q[i]>> \o @]

\* The loop of the retry callback: from index i down to 1, an entry whose
\* target now exists gets its handler and is spliced out of the queue.
\* tried lists the entries the loop attempted, in the order it reached them.
RECURSIVE RetryLoop(_, _, _, _)
RetryLoop(q, i, att, d) ==
    IF i = 0 THEN [queue |-> q, attached |-> att, tried |-> <<>>]
    ELSE LET rest == IF SafeAddEvent(q[i], d)
                     THEN RetryLoop(Splice(q, i), i - 1, [att EXCEPT ![q[i]] = @ + 1], d)
                     ELSE RetryLoop(q, i - 1, att, d)
         IN  [rest EXCEPT !.tried = <<q[i]>> \o @]

\* A callback that goes on until the queue is empty.
RetryStops_EmptyOnly(q, count) == Len(q) = 0

\* The retry callback clears its interval when nothing is left or the
\* last round has run.
RetryStops(q, count) == Len(q) = 0 \/ count >= maxRetries

\* The names showModal is called with: handleNavigation builds
\* "<screen>Modal" from a navigation button, showError passes "errorModal",
\* and showHorseDetails passes "horseDetail", which names no element.
modalNames == modalElements \cup {errorModal, "horseDetail"}

\* The names showScreen is called with: the registered screens and one that
\* initializeScreens does not know.
screenNames == ScreenSet \cup {"settings"}

\* What closeModal is handed: btn.closest('.modal'), an element or null.
modalNodes == modalElements \cup {errorModal, "null"}

\* The console.error lines that report an Error showScreen threw.
thrownErrors == {"NotReadyError", "ScreenNotFoundError"}

\* The part of the controller and of the document that showScreen,
\* showModal, closeModal and showError work on.
View == [display |-> display, currentScreen |-> currentScreen, modals |-> modals,
         consoleError |-> consoleError]

\* A showModal without the ready check.
ShowModalEffect_NoReadyCheck(u, modalId) ==
    IF modalId \in u.modals
    THEN [u EXCEPT !.display[modalId] = "flex"]
    ELSE IF modalId \in dom \cap Styled
         THEN [u EXCEPT !.display[modalId] = "flex", !.modals = @ \cup {modalId}]
    ELSE [u EXCEPT !.consoleError = "modalNotFound"]

\* A showModal that registers a name it found no element for.
ShowModalEffect_RegistersUnknown(u, modalId) ==
    IF ~ready THEN u
    ELSE IF modalId \in u.modals
         THEN [u EXCEPT !.display[modalId] = "flex"]
    ELSE IF modalId \in dom \cap Styled
         THEN [u EXCEPT !.display[modalId] = "flex", !.modals = @ \cup {modalId}]
    ELSE [u EXCEPT !.consoleError = "modalNotFound", !.modals = @ \cup {modalId}]

\* showModal(modalId): nothing before ready; a registered modal is shown; a
\* name that only getElementById finds is shown and registered; anything else
\* is reported with console.error.
ShowModalEffect(u, modalId) ==
    IF ~ready THEN u
    ELSE IF modalId \in u.modals
         THEN [u EXCEPT !.display[modalId] = "flex"]
    ELSE IF modalId \in dom \cap Styled
         THEN [u EXCEPT !.display[modalId] = "flex", !.modals = @ \cup {modalId}]
    ELSE [u EXCEPT !.consoleError = "modalNotFound"]

\* showError(message): the message goes into #errorModal, when the page has
\* one, and showModal('errorModal') is called.
ShowErrorEffect(u) ==
    IF errorModal \in dom THEN ShowModalEffect(u, errorModal) ELSE u

\* A showScreen that shows the named screen without hiding the others.
ShowScreenEffect_NoHide(u, screenId) ==
    IF ~ready THEN ShowErrorEffect([u EXCEPT !.consoleError = "NotReadyError"])
    ELSE IF screenId \notin screens
         THEN ShowErrorEffect([u EXCEPT !.consoleError = "ScreenNotFoundError"])
    ELSE [u EXCEPT !.display[screenId] = "block", !.currentScreen = screenId]

\* A showScreen that hides every screen before it looks the name up, as the
\* earlier revision of the controller did.
ShowScreenEffect_HideFirst(u, screenId) ==
    LET hidden == [u EXCEPT !.display = [e \in Styled |->
                                           IF e \in screens THEN "none" ELSE @[e]]] IN
    IF ~ready THEN ShowErrorEffect([u EXCEPT !.consoleError = "NotReadyError"])
    ELSE IF screenId \notin screens
         THEN ShowErrorEffect([hidden EXCEPT !.consoleError = "ScreenNotFoundError"])
    ELSE [hidden EXCEPT !.display[screenId] = "block", !.currentScreen = screenId]

\* showScreen(screenId): the not-ready and the not-found Error are thrown
\* and caught inside, reported, and handed to showError; otherwise every
\* registered screen is hidden, the named one shown and made current.
ShowScreenEffect(u, screenId) ==
    IF ~ready THEN ShowErrorEffect([u EXCEPT !.consoleError = "NotReadyError"])
    ELSE IF screenId \notin screens
         THEN ShowErrorEffect([u EXCEPT !.consoleError = "ScreenNotFoundError"])
    ELSE [u EXCEPT !.display = [e \in Styled |->
                                  IF e = screenId THEN "block"
                                  ELSE IF e \in screens THEN "none" ELSE @[e]],
                   !.currentScreen = screenId]

\* A closeModal that hides every screen and modal.
CloseModalEffect_HideAll(u, modal) ==
    IF modal \in dom THEN [u EXCEPT !.display = [e \in Styled |-> "none"]] ELSE u

\* closeModal(modal): the element, when there is one, is hidden.
CloseModalEffect(u, modal) ==
    IF modal \in dom THEN [u EXCEPT !.display[modal] = "none"] ELSE u

\* ------------------------------------------------------------- scheduling

\* ------------------------------------------- the handlers of HorseTycoon

\* The events setupAudioEvents subscribes to, by their GameEvents key.
GameEvents == {"GAME_STARTED", "HORSE_ACQUIRED", "HORSE_LEVELED_UP", "RACE_STARTED",
               "RACE_FINISHED", "HORSE_PURCHASED", "ACHIEVEMENT_UNLOCKED",
               "SCREEN_CHANGED"}

\* The functions of GameManager and audioManager that main.js calls outside
\* any try block; whether one throws is the environment's choice.
services == {"update", "saveGame", "playMusic", "playSfx"}

audioCommands == {"playMusic", "playSfx"}

toastElement == "successToast"

Call(fn, arg) == <<fn, arg>>

HandlerCommands_RaceReversed(event) ==
    IF event = "GAME_STARTED" THEN <<Call("playMusic", "background")>>
    ELSE IF event = "HORSE_ACQUIRED" THEN <<Call("playSfx", "horseNeigh")>>
    ELSE IF event = "HORSE_LEVELED_UP" THEN <<Call("playSfx", "levelUp")>>
    ELSE IF event = "RACE_STARTED"
         THEN <<Call("playSfx", "raceStart"), Call("playMusic", "race")>>
    ELSE IF event = "RACE_FINISHED"
         THEN <<Call("playMusic", "background"), Call("playSfx", "raceFinish")>>
    ELSE IF event = "HORSE_PURCHASED" THEN <<Call("playSfx", "coins")>>
    ELSE IF event = "ACHIEVEMENT_UNLOCKED" THEN <<Call("playSfx", "achievement")>>
    ELSE <<Call("playSfx", "click")>>

\* The body of the handler setupAudioEvents passes for an event.
HandlerCommands(event) ==
    IF event = "GAME_STARTED" THEN <<Call("playMusic", "background")>>
    ELSE IF event = "HORSE_ACQUIRED" THEN <<Call("playSfx", "horseNeigh")>>
    ELSE IF event = "HORSE_LEVELED_UP" THEN <<Call("playSfx", "levelUp")>>
    ELSE IF event = "RACE_STARTED"
         THEN <<Call("playMusic", "race"), Call("playSfx", "raceStart")>>
    ELSE IF event = "RACE_FINISHED"
         THEN <<Call("playMusic", "background"), Call("playSfx", "raceFinish")>>
    ELSE IF event = "HORSE_PURCHASED" THEN <<Call("playSfx", "coins")>>
    ELSE IF event = "ACHIEVEMENT_UNLOCKED" THEN <<Call("playSfx", "achievement")>>
    ELSE <<Call("playSfx", "click")>>

\* The sounds of the document's click and mouseover listeners.
buttonSounds == {"click", "hover"}

\* The body of the one-second interval.
tickCalls == <<Call("update", ""), Call("updateUI", "")>>

autosaveCalls_ConfirmFirst ==
    <<Call("showSuccess", "Game autosaved"), Call("saveGame", ""), Call("playSfx", "success")>>

\* The body of the five-minute interval.
autosaveCalls ==
    <<Call("saveGame", ""), Call("showSuccess", "Game autosaved"), Call("playSfx", "success")>>

unloadCalls_Nothing == <<>>

\* The body of the beforeunload listener.
unloadCalls == <<Call("saveGame", "")>>

\* The end of the constructor, after setupAudioEvents.
startCalls == <<Call("checkSavedGame", ""), Call("playMusic", "menu")>>

CanSubscribe_Always(bus) == TRUE

\* eventSystem && typeof eventSystem.on === 'function'
CanSubscribe(bus) == bus = "present"

\* A straight-line body runs its calls in order up to the first that throws.
Run(calls, bad) ==
    LET failing == {k \in 1..Len(calls) : calls[k][1] \in bad}
        first == IF failing = {} THEN Len(calls) + 1
                 ELSE CHOOSE k \in failing : \A j \in failing : k <= j
    IN [done |-> SubSeq(calls, 1, first - 1),
        threw |-> IF failing = {} THEN "none" ELSE calls[first][1],
        skipped |-> SubSeq(calls, first + 1, Len(calls))]

Completed(r, fn) == \E k \in 1..Len(r.done) : r.done[k][1] = fn

\* The calls a body made, the one that threw included.
Made(calls, r) == SubSeq(calls, 1, Len(calls) - Len(r.skipped))

NoError == [task |-> "none", threw |-> "none", skipped |-> <<>>]

\* What the exception of a body leaves behind when nothing catches it.
Thrown(task, r) ==
    IF r.threw = "none" THEN uncaught
    ELSE [task |-> task, threw |-> r.threw, skipped |-> r.skipped]

RECURSIVE Times(_, _)
\* The bus calls every handler subscribed for the event, one after another.
Times(calls, n) == IF n = 0 THEN <<>> ELSE calls \o Times(calls, n - 1)

\* A continuation of an await is waiting to run: no task may start.
MicrotaskPending ==
    \/ pc \notin {"NotStarted", "LoadingAssets", "Done", "Rejected"}
    \/ pc = "LoadingAssets" /\ allPromise.state # "pending"
    \/ pc = "Done" /\ uiPc \notin {"idle", "done", "failed"}

TaskMayRun == pc # "NotStarted" /\ ~MicrotaskPending

\* ------------------------------------------------------------------- Init

Boot ==
    /\ display = [e \in Styled |-> ""]
    /\ soundFiles \in 0..MaxAssets
    /\ audio = [i \in Assets |-> "idle"]
    /\ totalAssets = 0
    /\ loadedAssets = 0
    /\ loadingText = [kind |-> "initial", n |-> 0]
    /\ promise = [i \in Assets |-> "none"]
    /\ allPromise = [state |-> "none", by |-> 0]
    /\ loadAllResult = "none"
    /\ pc = "NotStarted"
    /\ gameManager = FALSE
    /\ game = FALSE
    /\ tickTimer = FALSE
    /\ autosaveTimer = FALSE
    /\ unloadHook = FALSE
    /\ unsaved = FALSE
    /\ audioWired = FALSE
    /\ musicStarted = FALSE
    /\ uiPc = "idle"
    /\ ready = FALSE
    /\ initializationPromise = "none"
    /\ currentScreen = "none"
    /\ screens = {}
    /\ modals = {}
    /\ attached = [b \in ManifestSet |-> 0]
    /\ retryQueue = <<>>
    /\ retryCount = 0
    /\ retryInterval = FALSE
    /\ consoleError = "none"
    /\ handlers = [event \in GameEvents |-> 0]
    /\ issued = <<>>
    /\ uncaught = NoError
    /\ toast = ""
    /\ page = "open"
    /\ initializeCalls = 0

\* A page without the success toast, whose services are all in place.
Init ==
    /\ Boot
    /\ dom \in {Surface \ m : m \in {x \in SUBSET Surface : Cardinality(x) <= MaxMissing}}
    /\ eventBus = "present"
    /\ throwing = {}

\* ---------------------------------------------------------- asset loading

\* The DOMContentLoaded handler up to its await: loadAllAssets sets
\* totalAssets and starts loadSound for every entry.  Whether the network
\* ever answers for an entry is the environment's choice.
DOMContentLoaded ==
    /\ pc = "NotStarted"
    /\ totalAssets' = soundFiles
    /\ \E stalled \in SUBSET (1..soundFiles) :
          audio' = [i \in Assets |->
                      IF i > soundFiles THEN "idle"
                      ELSE IF i \in stalled THEN "stalled" ELSE "loading"]
    /\ promise' = [i \in Assets |-> IF i > soundFiles THEN "none" ELSE "pending"]
    /\ allPromise' = [state |-> IF soundFiles = 0 THEN "resolved" ELSE "pending", by |-> 0]
    /\ loadAllResult' = "pending"
    /\ pc' = "LoadingAssets"
    /\ UNCHANGED <<domVars, soundFiles, loadedAssets, loadingText, gameVars, uiVars>>
    /\ UNCHANGED <<envVars, runVars>>

\* canplaythrough events emitted beyond the first of each media element.
Refires == loadedAssets - Cardinality({j \in Assets : promise[j] = "resolved"})

\* audio.oncanplaythrough of entry i.
CanPlayThrough(i) ==
    /\ TaskMayRun
    /\ \/ audio[i] = "loading"
       \/ audio[i] = "playable" /\ Refires < MaxRefires
    /\ audio' = [audio EXCEPT ![i] = "playable"]
    /\ loadedAssets' = loadedAssets + 1
    /\ loadingText' = Progress(loadedAssets + 1, totalAssets)
    /\ promise' = [promise EXCEPT ![i] = IF @ = "pending" THEN "resolved" ELSE @]
    /\ allPromise' = IF promise[i] = "pending"
                     THEN AllAfterResolve(allPromise, promise, i)
                     ELSE allPromise
    /\ UNCHANGED <<domVars, soundFiles, totalAssets, loadAllResult, pc, gameVars, uiVars>>
    /\ UNCHANGED <<envVars, runVars>>

\* audio.onerror of entry i.
AudioError(i) ==
    /\ TaskMayRun
    /\ audio[i] \in {"loading", "playable"}
    /\ audio' = [audio EXCEPT ![i] = "error"]
    /\ promise' = [promise EXCEPT ![i] = IF @ = "pending" THEN "rejected" ELSE @]
    /\ allPromise' = IF promise[i] = "pending" THEN AllAfterReject(allPromise, i) ELSE allPromise
    /\ UNCHANGED <<domVars, soundFiles, totalAssets, loadedAssets, loadingText,
                   loadAllResult, pc, gameVars, uiVars>>
    /\ UNCHANGED <<envVars, runVars>>

\* loadAllAssets after its await, every entry loaded: showMainMenu.
LoadAllThen ==
    /\ pc = "LoadingAssets"
    /\ allPromise.state = "resolved"
    /\ \E classes \in SUBSET {"screen", "main-menu-screen"} :
          display' = ShowMainMenuDisplay(display, classes)
    /\ loadAllResult' = "fulfilled"
    /\ pc' = "Construct"
    /\ UNCHANGED <<dom, mediaVars, totalAssets, loadedAssets, loadingText, promise,
                   allPromise, gameVars, uiVars>>
    /\ UNCHANGED <<envVars, runVars>>

\* loadAllAssets after its await, an entry failed: the catch block.
LoadAllCatch ==
    /\ pc = "LoadingAssets"
    /\ allPromise.state = "rejected"
    /\ loadingText' = [kind |-> "error", n |-> allPromise.by]
    /\ loadAllResult' = CatchResult
    /\ pc' = IF CatchResult = "fulfilled" THEN "Construct" ELSE "Rejected"
    /\ UNCHANGED <<domVars, mediaVars, totalAssets, loadedAssets, promise, allPromise,
                   gameVars, uiVars>>
    /\ UNCHANGED <<envVars, runVars>>

\* ---------------------------------------------------------------- startup

\* window.game = new HorseTycoon(), first part: the GameManager and the
\* UIController are constructed; the constructor of the UIController calls
\* initialize(), which runs initializeScreens up to its first await.
NewHorseTycoon ==
    /\ pc = "Construct"
    /\ gameManager' = TRUE
    /\ ready' = FALSE
    /\ currentScreen' = "loading"
    /\ modals' = {}
    /\ initializationPromise' = "pending"
    /\ screens' = ScreenSet \cap dom
    /\ display' = InitializeScreensDisplay(display, dom)
    /\ uiPc' = IF InitializeScreensThrows(dom) THEN "threw" ELSE "modals"
    /\ pc' = "SetupGameLoop"
    /\ UNCHANGED <<dom, mediaVars, loaderVars, game, tickTimer, autosaveTimer,
                   unloadHook, unsaved, audioWired, musicStarted,
                   attached, retryQueue, retryCount, retryInterval,
                   consoleError>>
    /\ UNCHANGED <<envVars, runVars>>

SetupGameLoop ==
    /\ pc = "SetupGameLoop"
    /\ tickTimer' = TRUE
    /\ pc' = "SetupAutosave"
    /\ UNCHANGED <<domVars, mediaVars, loaderVars, gameManager, game, autosaveTimer,
                   unloadHook, unsaved, audioWired, musicStarted, uiVars>>
    /\ UNCHANGED <<envVars, runVars>>

SetupAutosave ==
    /\ pc = "SetupAutosave"
    /\ autosaveTimer' = TRUE
    /\ unloadHook' = TRUE
    /\ pc' = "SetupAudioEvents"
    /\ UNCHANGED <<domVars, mediaVars, loaderVars, gameManager, game, tickTimer,
                   unsaved, audioWired, musicStarted, uiVars>>
    /\ UNCHANGED <<envVars, runVars>>

\* safeAddGameEvent for every event of the catalog, then the click and
\* mouseover listeners of the document.
SetupAudioEvents ==
    /\ pc = "SetupAudioEvents"
    /\ audioWired' = TRUE
    /\ handlers' = [event \in GameEvents |->
                      IF CanSubscribe(eventBus) THEN handlers[event] + 1
                      ELSE handlers[event]]
    /\ pc' = "StartMusic"
    /\ UNCHANGED <<domVars, mediaVars, loaderVars, gameManager, game, tickTimer,
                   autosaveTimer, unloadHook, unsaved, musicStarted, uiVars>>
    /\ UNCHANGED <<envVars, issued, uncaught, toast, page>>

\* checkSavedGame, audioManager.playMusic('menu'), and the assignment of
\* the finished object to window.game.
\* An exception of playMusic leaves the constructor: nothing is assigned,
\* and the promise of the DOMContentLoaded handler rejects unhandled.
StartMusic ==
    /\ pc = "StartMusic"
    /\ LET r == Run(startCalls, throwing) IN
         /\ musicStarted' = Completed(r, "playMusic")
         /\ game' = (r.threw = "none")
         /\ uncaught' = Thrown("constructor", r)
    /\ pc' = "Done"
    /\ UNCHANGED <<domVars, mediaVars, loaderVars, gameManager, tickTimer, autosaveTimer,
                   unloadHook, unsaved, audioWired, uiVars>>
    /\ UNCHANGED <<envVars, handlers, issued, toast, page>>

\* ------------------------------------------------ UIController.initialize

\* The rejection of an awaited step reaches the catch of initialize().
UICatch ==
    /\ pc = "Done"
    /\ uiPc = "threw"
    /\ ready' = FALSE
    /\ uiPc' = "rejecting"
    /\ UNCHANGED <<domVars, mediaVars, loaderVars, pc, gameVars, initializationPromise,
                   currentScreen, screens, modals, attached, retryQueue, retryCount,
                   retryInterval,
                   consoleError>>
    /\ UNCHANGED <<envVars, runVars>>

UIInitializeModals ==
    /\ pc = "Done"
    /\ uiPc = "modals"
    /\ IF InitializeModalsThrows(dom)
       THEN /\ uiPc' = "threw"
            /\ UNCHANGED <<modals, display>>
       ELSE /\ uiPc' = "listeners"
            /\ modals' = modals \cup (modalElements \cap dom)
            /\ display' = [e \in Styled |->
                             IF e \in modalElements \cap dom THEN "none" ELSE display[e]]
    /\ UNCHANGED <<dom, mediaVars, loaderVars, pc, gameVars, ready,
                   initializationPromise, currentScreen, screens, attached, retryQueue,
                   retryCount, retryInterval,
                   consoleError>>
    /\ UNCHANGED <<envVars, runVars>>

UISetupEventListeners ==
    /\ pc = "Done"
    /\ uiPc = "listeners"
    /\ attached' = [b \in ManifestSet |->
                      IF SafeAddEvent(b, dom) THEN attached[b] + 1 ELSE attached[b]]
    /\ retryQueue' = InitialRetryQueue(dom)
    /\ retryInterval' = (Len(InitialRetryQueue(dom)) > 0)
    /\ retryCount' = 0
    /\ uiPc' = "audioControls"
    /\ UNCHANGED <<domVars, mediaVars, loaderVars, pc, gameVars, ready,
                   initializationPromise, currentScreen, screens, modals,
                   consoleError>>
    /\ UNCHANGED <<envVars, runVars>>

\* setupAudioControls binds the audio toggles and sliders, which are not
\* part of the surface followed here; it cannot throw.
UISetupAudioControls ==
    /\ pc = "Done"
    /\ uiPc = "audioControls"
    /\ uiPc' = "verify"
    /\ UNCHANGED <<domVars, mediaVars, loaderVars, pc, gameVars, ready,
                   initializationPromise, currentScreen, screens, modals, attached,
                   retryQueue, retryCount, retryInterval,
                   consoleError>>
    /\ UNCHANGED <<envVars, runVars>>

UIVerify ==
    /\ pc = "Done"
    /\ uiPc = "verify"
    /\ IF VerifyCriticalThrows(dom)
       THEN ready' = FALSE /\ uiPc' = "rejecting"
       ELSE ready' = TRUE /\ uiPc' = "resolving"
    /\ UNCHANGED <<domVars, mediaVars, loaderVars, pc, gameVars, initializationPromise,
                   currentScreen, screens, modals, attached, retryQueue, retryCount,
                   retryInterval,
                   consoleError>>
    /\ UNCHANGED <<envVars, runVars>>

UISettle_AlwaysFulfils ==
    /\ pc = "Done"
    /\ uiPc \in {"resolving", "rejecting"}
    /\ initializationPromise' = IF initializationPromise # "pending" THEN initializationPromise
                                ELSE "fulfilled"
    /\ uiPc' = IF uiPc = "resolving" THEN "done" ELSE "failed"
    /\ UNCHANGED <<domVars, mediaVars, loaderVars, pc, gameVars, ready, currentScreen,
                   screens, modals, attached, retryQueue, retryCount, retryInterval,
                   consoleError>>
    /\ UNCHANGED <<envVars, runVars>>

\* initialize().then(resolve).catch(reject)
UISettle ==
    /\ pc = "Done"
    /\ uiPc \in {"resolving", "rejecting"}
    /\ initializationPromise' = IF initializationPromise # "pending" THEN initializationPromise
                                ELSE IF uiPc = "resolving" THEN "fulfilled" ELSE "rejected"
    /\ uiPc' = IF uiPc = "resolving" THEN "done" ELSE "failed"
    /\ UNCHANGED <<domVars, mediaVars, loaderVars, pc, gameVars, ready, currentScreen,
                   screens, modals, attached, retryQueue, retryCount, retryInterval,
                   consoleError>>
    /\ UNCHANGED <<envVars, runVars>>

\* -------------------------------------------------------------------- tasks

\* One firing of the retry interval.
RetryRound ==
    /\ TaskMayRun
    /\ retryInterval
    /\ LET r == RetryLoop(retryQueue, Len(retryQueue), attached, dom) IN
         /\ retryCount' = retryCount + 1
         /\ retryQueue' = r.queue
         /\ attached' = r.attached
         /\ retryInterval' = ~RetryStops(r.queue, retryCount + 1)
    /\ UNCHANGED <<domVars, mediaVars, loaderVars, pc, gameVars, uiPc, ready,
                   initializationPromise, currentScreen, screens, modals,
                   consoleError>>
    /\ UNCHANGED <<envVars, runVars>>

\* A control of the manifest is inserted into the document after startup.
ElementAppears(e) ==
    /\ TaskMayRun
    /\ pc = "Done"
    /\ e \in ManifestSet \ dom
    /\ dom' = dom \cup {e}
    /\ UNCHANGED <<display, mediaVars, loaderVars, pc, gameVars, uiVars>>
    /\ UNCHANGED <<envVars, runVars>>

\* The one-second interval: gameManager.update(), then updateUI().
\* updateUI catches what it throws; update is called bare, and what it
\* changed before throwing is its own affair.
Tick ==
    /\ TaskMayRun
    /\ tickTimer
    /\ LET r == Run(tickCalls, throwing) IN
         /\ unsaved' \in IF Completed(r, "update") THEN {TRUE} ELSE {unsaved, TRUE}
         /\ uncaught' = Thrown("tick", r)
    /\ UNCHANGED <<domVars, mediaVars, loaderVars, pc, gameManager, game, tickTimer,
                   autosaveTimer, unloadHook, audioWired, musicStarted, uiVars>>
    /\ UNCHANGED <<envVars, handlers, issued, toast, page>>

\* The five-minute interval: saveGame(), showSuccess, playSfx.
\* showSuccess catches what it throws and shows the toast when the page
\* has one; saveGame and playSfx are called bare.
Autosave ==
    /\ TaskMayRun
    /\ autosaveTimer
    /\ LET r == Run(autosaveCalls, throwing) IN
         /\ unsaved' = IF Completed(r, "saveGame") THEN FALSE ELSE unsaved
         /\ toast' = IF Completed(r, "showSuccess") /\ toastElement \in dom
                     THEN "block" ELSE toast
         /\ uncaught' = Thrown("autosave", r)
    /\ UNCHANGED <<domVars, mediaVars, loaderVars, pc, gameManager, game, tickTimer,
                   autosaveTimer, unloadHook, audioWired, musicStarted, uiVars>>
    /\ UNCHANGED <<envVars, handlers, issued, page>>

\* The timeout showSuccess sets hides the toast again.
ToastExpires ==
    /\ TaskMayRun
    /\ toast = "block"
    /\ toast' = "none"
    /\ UNCHANGED <<domVars, mediaVars, loaderVars, pc, gameVars, uiVars, envVars,
                   handlers, issued, uncaught, page>>

\* The bus delivers one emission of a game event to its subscribers.
Emit(event) ==
    /\ TaskMayRun
    /\ audioWired
    /\ eventBus # "absent"
    /\ LET calls == Times(HandlerCommands(event), handlers[event])
           r == Run(calls, throwing \cap audioCommands) IN
         /\ issued' = Made(calls, r)
         /\ uncaught' = Thrown("handler", r)
    /\ UNCHANGED <<domVars, mediaVars, loaderVars, pc, gameVars, uiVars, envVars,
                   handlers, toast, page>>

\* A click on, or the pointer entering, an enabled button.
ButtonEvent(sound) ==
    /\ TaskMayRun
    /\ audioWired
    /\ LET calls == <<Call("playSfx", sound)>>
           r == Run(calls, throwing) IN
         /\ issued' = Made(calls, r)
         /\ uncaught' = Thrown("listener", r)
    /\ UNCHANGED <<domVars, mediaVars, loaderVars, pc, gameVars, uiVars, envVars,
                   handlers, toast, page>>

\* The page is about to be torn down: the beforeunload listener, if added.
\* The user may still stay on the page, so nothing else stops.
BeforeUnload ==
    /\ TaskMayRun
    /\ LET r == Run(IF unloadHook THEN unloadCalls ELSE <<>>, throwing) IN
         /\ unsaved' = IF Completed(r, "saveGame") THEN FALSE ELSE unsaved
         /\ uncaught' = Thrown("beforeunload", r)
    /\ page' = "unloading"
    /\ UNCHANGED <<domVars, mediaVars, loaderVars, pc, gameManager, game, tickTimer,
                   autosaveTimer, unloadHook, audioWired, musicStarted, uiVars>>
    /\ UNCHANGED <<envVars, handlers, issued, toast>>

Reinitialize_ResetsReady ==
    /\ TaskMayRun
    /\ pc = "Done"
    /\ initializeCalls < MaxInitialize
    /\ initializeCalls' = initializeCalls + 1
    /\ ready' = FALSE
    /\ screens' = screens \cup (ScreenSet \cap dom)
    /\ display' = InitializeScreensDisplay(display, dom)
    /\ uiPc' = IF InitializeScreensThrows(dom) THEN "threw" ELSE "modals"
    /\ UNCHANGED <<dom, mediaVars, loaderVars, pc, gameVars, initializationPromise,
                   currentScreen, modals, attached, retryQueue, retryCount,
                   retryInterval, consoleError, eventBus, throwing, runVars>>

\* A further call of initialize() on the controller, up to its first await:
\* initializeScreens again.  Neither ready nor currentScreen is touched on
\* the way in; the steps after the await are those of the first call.
Reinitialize ==
    /\ TaskMayRun
    /\ pc = "Done"
    /\ initializeCalls < MaxInitialize
    /\ initializeCalls' = initializeCalls + 1
    /\ screens' = screens \cup (ScreenSet \cap dom)
    /\ display' = InitializeScreensDisplay(display, dom)
    /\ uiPc' = IF InitializeScreensThrows(dom) THEN "threw" ELSE "modals"
    /\ UNCHANGED <<dom, mediaVars, loaderVars, pc, gameVars, ready, initializationPromise,
                   currentScreen, modals, attached, retryQueue, retryCount,
                   retryInterval, consoleError, eventBus, throwing, runVars>>

\* The view after an operation of the controller is written back.
Becomes(u) ==
    /\ display' = u.display
    /\ currentScreen' = u.currentScreen
    /\ modals' = u.modals
    /\ consoleError' = u.consoleError
    /\ UNCHANGED <<dom, mediaVars, loaderVars, pc, gameVars, uiPc, ready,
                   initializationPromise, screens, attached, retryQueue, retryCount,
                   retryInterval>>
    /\ UNCHANGED <<envVars, runVars>>

\* A click handler or a UI component calls uiController.showScreen(name).
ShowScreen(name) ==
    /\ TaskMayRun
    /\ pc = "Done"
    /\ Becomes(ShowScreenEffect(View, name))

\* A click handler or a UI component calls uiController.showModal(name).
ShowModal(name) ==
    /\ TaskMayRun
    /\ pc = "Done"
    /\ Becomes(ShowModalEffect(View, name))

\* A click handler or a UI component calls uiController.closeModal(node).
CloseModal(node) ==
    /\ TaskMayRun
    /\ pc = "Done"
    /\ Becomes(CloseModalEffect(View, node))

\* ----------------------------------------------------------- specification

Next ==
    \/ DOMContentLoaded
    \/ \E i \in Assets : CanPlayThrough(i)
    \/ \E i \in Assets : AudioError(i)
    \/ LoadAllThen
    \/ LoadAllCatch
    \/ NewHorseTycoon
    \/ SetupGameLoop
    \/ SetupAutosave
    \/ SetupAudioEvents
    \/ StartMusic
    \/ UICatch
    \/ UIInitializeModals
    \/ UISetupEventListeners
    \/ UISetupAudioControls
    \/ UIVerify
    \/ UISettle
    \/ RetryRound
    \/ \E e \in ManifestSet : ElementAppears(e)
    \/ Tick
    \/ Autosave

Spec == Init /\ [][Next]_vars

\* Continuations of awaits always run; a media element that is loading
\* eventually reports, a stalled one never does; armed timers keep firing.
Fairness ==
    /\ WF_vars(LoadAllThen) /\ WF_vars(LoadAllCatch)
    /\ WF_vars(NewHorseTycoon) /\ WF_vars(SetupGameLoop) /\ WF_vars(SetupAutosave)
    /\ WF_vars(SetupAudioEvents) /\ WF_vars(StartMusic)
    /\ WF_vars(UICatch) /\ WF_vars(UIInitializeModals) /\ WF_vars(UISetupEventListeners)
    /\ WF_vars(UISetupAudioControls) /\ WF_vars(UIVerify) /\ WF_vars(UISettle)
    /\ WF_vars(DOMContentLoaded)
    /\ \A i \in Assets : WF_vars(CanPlayThrough(i) \/ AudioError(i))
    /\ WF_vars(RetryRound) /\ WF_vars(Tick) /\ WF_vars(Autosave)

FairSpec == Spec /\ Fairness

\* The controller in use, on a page that holds every control of the binding
\* manifest: nothing is queued for retry and nothing is inserted late.
UIInit == Init /\ ManifestSet \subseteq dom

\* A media event while loadAllAssets waits for the catalog.  The events that
\* arrive after it has settled change the media elements and the loader's
\* counter and text only, which no operation of the controller reads; Spec
\* follows them.
MediaEventWhileLoading(i) ==
    /\ pc = "LoadingAssets"
    /\ (CanPlayThrough(i) \/ AudioError(i))

UINext ==
    \/ DOMContentLoaded
    \/ \E i \in Assets : MediaEventWhileLoading(i)
    \/ LoadAllThen
    \/ LoadAllCatch
    \/ NewHorseTycoon
    \/ SetupGameLoop
    \/ SetupAutosave
    \/ SetupAudioEvents
    \/ StartMusic
    \/ UICatch
    \/ UIInitializeModals
    \/ UISetupEventListeners
    \/ UISetupAudioControls
    \/ UIVerify
    \/ UISettle
    \/ Tick
    \/ Autosave
    \/ \E name \in screenNames : ShowScreen(name)
    \/ \E name \in modalNames : ShowModal(name)
    \/ \E node \in modalNodes : CloseModal(node)

UISpec == UIInit /\ [][UINext]_vars

\* The program on a complete page, with or without the success toast, with
\* every state of the event bus and every combination of failing services.
\* None of the handlers followed here reads the catalog: one sound, or none.
RunInit ==
    /\ Boot
    /\ soundFiles <= 1
    /\ dom \in {Surface, Surface \cup {toastElement}}
    /\ eventBus \in {"present", "noOn", "absent"}
    /\ throwing \in SUBSET services

RunNext ==
    \/ DOMContentLoaded
    \/ \E i \in Assets : MediaEventWhileLoading(i)
    \/ LoadAllThen
    \/ LoadAllCatch
    \/ NewHorseTycoon
    \/ SetupGameLoop
    \/ SetupAutosave
    \/ SetupAudioEvents
    \/ StartMusic
    \/ UIInitializeModals
    \/ UISetupEventListeners
    \/ UISetupAudioControls
    \/ UIVerify
    \/ UISettle
    \/ Tick
    \/ Autosave
    \/ ToastExpires
    \/ \E event \in GameEvents : Emit(event)
    \/ \E sound \in buttonSounds : ButtonEvent(sound)
    \/ BeforeUnload

RunSpec == RunInit /\ [][RunNext]_vars

\* The controller in use on a page that holds every control of the binding
\* manifest, with initialize() called again by the page's code.
ReNext ==
    \/ DOMContentLoaded
    \/ \E i \in Assets : MediaEventWhileLoading(i)
    \/ LoadAllThen
    \/ LoadAllCatch
    \/ NewHorseTycoon
    \/ SetupGameLoop
    \/ SetupAutosave
    \/ SetupAudioEvents
    \/ StartMusic
    \/ UICatch
    \/ UIInitializeModals
    \/ UISetupEventListeners
    \/ UISetupAudioControls
    \/ UIVerify
    \/ UISettle
    \/ Reinitialize
    \/ \E name \in screenNames : ShowScreen(name)
    \/ \E name \in modalNames : ShowModal(name)
    \/ \E node \in modalNodes : CloseModal(node)

ReSpec == UIInit /\ [][ReNext]_vars

\* ------------------------------------------------------------ properties

\* No task can run before the continuations of the startup code have run:
\* the states in which a timer, an event or the user may act.
StartupTaskDone == pc = "Done" /\ ~MicrotaskPending

Occurrences(q, b) == Cardinality({k \in 1..Len(q) : q[k] = b})

\* C1: loadAllAssets completes successfully to its caller exactly when every
\* catalog entry loaded, and rejects to its caller when an entry failed.
C1_LoadAllRejectsOnFailure ==
    /\ loadAllResult = "fulfilled" => \A i \in 1..soundFiles : promise[i] = "resolved"
    /\ (allPromise.state = "rejected" /\ loadAllResult # "pending")
          => loadAllResult = "rejected"

\* C2: after an asset failed, no GameManager and no UIController is ever
\* created, audio is never wired and no timer is ever started.
C2_NoStartupAfterAssetFailure ==
    (\E i \in 1..soundFiles : promise[i] = "rejected")
        => ~gameManager /\ uiPc = "idle" /\ ~audioWired /\ ~tickTimer /\ ~autosaveTimer

\* C3: UI initialization is entered only after the asset load completed
\* successfully, and the later phases (timers, audio wiring) begin only after
\* the UI initialization promise has settled successfully.
C3_PhasesInStrictOrder ==
    /\ uiPc # "idle" => allPromise.state = "resolved"
    /\ (tickTimer \/ autosaveTimer \/ audioWired) => initializationPromise = "fulfilled"

\* C4: when the UI controller has ended without reaching ready, audio wiring
\* has not run and no timer has been started.
C4_NoPhaseAfterUINotReady ==
    (uiPc = "failed" /\ ~ready) => ~audioWired /\ ~tickTimer /\ ~autosaveTimer

\* C5: neither the tick timer nor the autosave timer is armed while the
\* ready flag is false.
C5_TimersArmedOnlyWhenReady ==
    (tickTimer \/ autosaveTimer) => ready

\* C6: when UI initialization has rejected, the startup entry point has not
\* completed normally (no game object is installed), the menu music has not
\* been started and no tick has run.
C6_RejectedInitAbortsStartup ==
    initializationPromise = "rejected" => ~game /\ ~musicStarted /\ ~unsaved

\* C7: the loaded counter stays within 0..totalAssets.
C7_LoadedWithinTotal ==
    0 <= loadedAssets /\ loadedAssets <= totalAssets

\* C8: the asset load operation eventually settles, whatever the media
\* elements report or fail to report.
C8_LoadAllEventuallySettles ==
    <>(loadAllResult \in {"fulfilled", "rejected"})

RequiredSurface ==
    /\ ScreenSet \subseteq dom
    /\ "modal-container" \in dom
    /\ modalElements \cap dom # {}

\* C10 as stated: with every critical element present, initialization has
\* reached ready by the time the first task can run.
C10_ReadyWhenCriticalPresent ==
    (StartupTaskDone /\ criticalElements \subseteq dom) => ready

\* C10 as amended: with the four screens, the modal container and at least
\* one modal present, initialization has reached ready by the time the first
\* task can run, whichever controls of the manifest are missing; and from
\* setupEventListeners on, every control of the manifest is either bound or
\* queued exactly once, a missing one being queued.
C10_ReadyWhenRequiredSurfacePresent ==
    /\ (StartupTaskDone /\ RequiredSurface)
          => ready /\ initializationPromise = "fulfilled"
    /\ uiPc \in {"audioControls", "verify", "resolving", "done"}
          => \A b \in ManifestSet :
                /\ Occurrences(retryQueue, b) = IF attached[b] = 0 THEN 1 ELSE 0
                /\ b \notin dom => attached[b] = 0

\* C10's case: initialization succeeded although a control of the manifest
\* is still missing and waits in the retry queue.
C10_Witness ==
    /\ StartupTaskDone /\ RequiredSurface /\ ready
    /\ Len(retryQueue) = 1 /\ retryQueue[1] \notin dom

\* C11: when a critical identifier is missing, ready is never true and the
\* retry interval is never armed (nothing retries the check); once the startup
\* code has run, initialize() has failed and its promise is rejected.
C11_CriticalMissingIsFatal ==
    /\ ~(criticalElements \subseteq dom) => ~ready /\ ~retryInterval /\ retryCount = 0
    /\ (StartupTaskDone /\ ~(criticalElements \subseteq dom))
          => uiPc = "failed" /\ initializationPromise = "rejected"

\* C11's case: the modal container is missing, initialize() has failed, and
\* the tick timer has fired since.
C11_Witness ==
    /\ "modal-container" \notin dom /\ ScreenSet \subseteq dom
    /\ uiPc = "failed" /\ initializationPromise = "rejected" /\ unsaved

\* C12: once setupEventListeners has run, every binding either has its
\* handler exactly once and no entry in the retry queue, or has no handler
\* and exactly one entry: a missing target is queued once, a retry that
\* succeeds removes the entry, and no later round adds the handler again.
C12_QueuedOnceRemovedOnSuccess ==
    uiPc \in {"audioControls", "verify", "resolving", "done"}
        => \A b \in ManifestSet :
              /\ attached[b] <= 1
              /\ Occurrences(retryQueue, b) = 1 - attached[b]

\* C12's case: the queue was not empty, rounds have run, and the last entry
\* was removed by a retry that succeeded in the second round or later.
C12_Witness ==
    /\ retryQueue = <<>> /\ retryCount >= 2
    /\ \A b \in ManifestSet : attached[b] = 1

\* C13: there is no round after the fifth; when the fifth has run with
\* entries left, the interval is cleared (the entries are given up, with the
\* one report of that round), ready is true and the tick and autosave timers
\* are armed and free to fire; and no round runs before ready is true.
C13_DropAfterMaxRetries ==
    /\ retryCount <= maxRetries
    /\ retryCount = maxRetries
          => ~retryInterval /\ ready /\ tickTimer /\ autosaveTimer /\ TaskMayRun
    /\ (retryCount > 0 \/ (retryInterval /\ StartupTaskDone)) => ready

\* C13's case: the fifth round has run, an entry is still unresolved, and
\* the tick timer has fired.
C13_Witness ==
    /\ retryCount = maxRetries /\ Len(retryQueue) > 0 /\ ~retryInterval
    /\ ready /\ unsaved

\* C14: a round runs only while the interval is armed and is at most the
\* fifth; after it no entry whose target exists is left in the queue; the
\* interval stays armed exactly when entries are left and fewer than five
\* rounds have run; and while the interval is not armed, outside
\* setupEventListeners itself, no handler is added and it is not armed again.
C14_RetryTimerBounded ==
    [][/\ retryCount' = retryCount + 1
          => /\ retryInterval
             /\ retryCount' <= maxRetries
             /\ \A k \in 1..Len(retryQueue') : retryQueue'[k] \notin dom
             /\ \A k \in 1..Len(retryQueue) :
                    retryQueue[k] \in Range(retryQueue') \/ attached'[retryQueue[k]] = 1
             /\ retryInterval' = (Len(retryQueue') > 0 /\ retryCount' < maxRetries)
       /\ (~retryInterval /\ uiPc # "listeners")
          => attached' = attached /\ ~retryInterval' /\ retryCount' = retryCount]_vars

\* C14's case: the interval was cancelled after a round that emptied the
\* queue before the fifth, and a tick has run.
C14_Witness ==
    /\ retryCount \in 1..(maxRetries - 1) /\ retryQueue = <<>> /\ ~retryInterval
    /\ unsaved

\* The screens the controller or the loader has shown and not hidden since.
VisibleScreens == {e \in ScreenSet : display[e] \in {"block", "flex"}}

ScreenDisplay(d) == [e \in ScreenSet |-> d[e]]
ModalDisplay(d) == [e \in Styled \ ScreenSet |-> d[e]]

\* C15: a call of showScreen while ready is false reports the not-ready
\* Error and leaves the display of every screen and of every modal, the
\* modal registry and currentScreen as they were.
C15_ShowScreenBeforeReady ==
    [][\A name \in screenNames :
          (~ready /\ ShowScreen(name))
             => /\ consoleError' = "NotReadyError"
                /\ display' = display
                /\ modals' = modals
                /\ currentScreen' = currentScreen]_vars

\* C15's case: showScreen has been called on a controller whose
\* initialization failed, on a page that has an error modal.
C15_Witness ==
    /\ uiPc = "failed" /\ ~ready /\ consoleError = "NotReadyError"
    /\ errorModal \in dom /\ display[errorModal] = ""

\* C16: at most one screen is visible in every reachable state, and in a
\* ready controller two calls of showScreen('gameUI') in a row leave gameUI
\* the one visible screen and the current one.
C16_AtMostOneScreenVisible ==
    /\ Cardinality(VisibleScreens) <= 1
    /\ ready =>
          LET once == ShowScreenEffect(View, "gameUI")
              twice == ShowScreenEffect(once, "gameUI")
          IN  /\ {e \in ScreenSet : twice.display[e] \in {"block", "flex"}} = {"gameUI"}
              /\ twice.currentScreen = "gameUI"
              /\ twice = once

\* C16's case: gameUI has been shown after another screen and is the one
\* visible screen.
C16_Witness ==
    /\ ready /\ currentScreen = "gameUI" /\ VisibleScreens = {"gameUI"}
    /\ display["playerSetup"] = "none" /\ display["loading"] = "none"

\* C17: a call of showScreen with a name that is not a registered screen
\* leaves the display of every screen and currentScreen as they were, and
\* reports the screen-not-found Error (before ready, the not-ready Error of
\* C15, which showScreen checks first).
C17_UnknownScreenChangesNoScreen ==
    [][\A name \in screenNames :
          (name \notin screens /\ ShowScreen(name))
             => /\ consoleError' = IF ready THEN "ScreenNotFoundError" ELSE "NotReadyError"
                /\ ScreenDisplay(display') = ScreenDisplay(display)
                /\ currentScreen' = currentScreen
                /\ VisibleScreens' = VisibleScreens]_vars

\* C17's case: with playerSetup visible, showScreen was called with an
\* unknown name; playerSetup is still the visible and current screen.
C17_Witness ==
    /\ ready /\ consoleError = "ScreenNotFoundError"
    /\ currentScreen = "playerSetup" /\ VisibleScreens = {"playerSetup"}

\* C18: showScreen, showModal, closeModal and the periodic refresh (which
\* calls updatePlayerInfo), run while ready is false, leave the display of
\* every screen and of every modal as it was.
C18_NoDisplayChangeBeforeReady ==
    [][(/\ ~ready
        /\ \/ \E name \in screenNames : ShowScreen(name)
           \/ \E name \in modalNames : ShowModal(name)
           \/ \E node \in modalNodes : CloseModal(node)
           \/ Tick)
          => display' = display]_vars

C20_UnknownModalIgnored ==
    [][\A name \in modalNames :
          (name \notin modals /\ name \notin dom /\ ShowModal(name))
             => /\ modals' = modals
                /\ display' = display
                /\ currentScreen' = currentScreen
                /\ consoleError' = IF ready THEN "modalNotFound" ELSE consoleError
                /\ consoleError' \notin thrownErrors \ {consoleError}]_vars

\* C20's case: showModal('horseDetail') has been called in a ready
\* controller while a registered modal was shown.
C20_Witness ==
    /\ ready /\ consoleError = "modalNotFound" /\ "horseDetail" \notin modals
    /\ "marketModal" \in modals /\ display["marketModal"] = "flex"

\* C21: a step of the asset loader, of the tick or autosave timer or of the
\* audio wiring leaves the display of every screen and modal as it was.
C21_DisplayChangedOnlyByController ==
    [][display' # display
          => ~(\/ LoadAllThen \/ LoadAllCatch
               \/ \E i \in Assets : CanPlayThrough(i) \/ AudioError(i)
               \/ Tick \/ Autosave \/ SetupAudioEvents)]_vars

\* C28: once the load has failed and loadAllAssets has returned, the loaded
\* counter and the loading text (the error message) stay as they are, and
\* the main menu is not switched to.
C28_LateResultsDiscarded ==
    [][(allPromise.state = "rejected" /\ loadAllResult # "pending")
          => /\ loadedAssets' = loadedAssets
             /\ loadingText' = loadingText
             /\ (display'["mainMenu"] = "flex" => display["mainMenu"] = "flex")]_vars

\* C29: every entry is counted as loaded at most once (the counter equals
\* the number of entries whose load succeeded), and an entry whose load
\* failed is not playable.
C29_EntryCountedOnce ==
    /\ loadedAssets = Cardinality({i \in Assets : promise[i] = "resolved"})
    /\ \A i \in Assets : promise[i] = "rejected" => audio[i] # "playable"

C23_AudioFailureSwallowed ==
    /\ uncaught.threw \notin audioCommands
    /\ StartupTaskDone => game

\* C26: no exception of the domain update or of the save leaves a timer
\* callback uncaught with part of that callback's work not done.
C26_TickErrorCaught ==
    ~(uncaught.task \in {"tick", "autosave"} /\ uncaught.threw \in {"update", "saveGame"})

\* C24: no event ever has more than one audio handler subscribed, and with
\* a working audio service one emission issues every command of its event
\* once, in the order of the mapping: race-started issues playMusic('race')
\* and then playSfx('raceStart'), acquiring a horse issues only the neigh.
C24_EmissionIssuesMappedCommands ==
    [][/\ \A event \in GameEvents : handlers'[event] <= 1
       /\ (eventBus = "present" /\ throwing \cap audioCommands = {})
            => /\ Emit("RACE_STARTED")
                    => issued' = <<Call("playMusic", "race"), Call("playSfx", "raceStart")>>
               /\ Emit("RACE_FINISHED")
                    => issued' = <<Call("playMusic", "background"),
                                   Call("playSfx", "raceFinish")>>
               /\ Emit("HORSE_ACQUIRED") => issued' = <<Call("playSfx", "horseNeigh")>>
               /\ \A event \in GameEvents :
                     Emit(event)
                        => /\ Len(issued') = Len(HandlerCommands(event))
                           /\ \A a, b \in 1..Len(issued') :
                                 a # b => issued'[a] # issued'[b]]_vars

C24_Witness ==
    /\ throwing = {} /\ handlers["RACE_STARTED"] = 1
    /\ issued = <<Call("playMusic", "race"), Call("playSfx", "raceStart")>>

\* C25: a step that brings up the success toast is one in which saveGame
\* has run to its end first: nothing is left unsaved, and a saveGame that
\* throws is never followed by the toast.
C25_SaveBeforeConfirmation ==
    [][(toast' = "block" /\ toast # "block")
          => (~unsaved' /\ "saveGame" \notin throwing)]_vars

C25_Witness ==
    /\ autosaveTimer /\ toastElement \in dom
    /\ toast = "block" /\ ~unsaved /\ uncaught = NoError

\* C27: once the game loop has been started the beforeunload listener is in
\* place whenever an event can be delivered, and every teardown event runs
\* saveGame inside the listener: the state is saved when the listener
\* returns, or saveGame's own exception is what left the listener.
C27_TeardownSaves ==
    [][/\ (tickTimer /\ TaskMayRun) => unloadHook
       /\ (tickTimer /\ page' # page)
            => \/ ~unsaved'
               \/ uncaught' = [task |-> "beforeunload", threw |-> "saveGame",
                               skipped |-> <<>>]]_vars

C27_Witness ==
    /\ page = "unloading" /\ tickTimer /\ unloadHook /\ unsaved
    /\ uncaught.task = "beforeunload" /\ uncaught.threw = "saveGame"

\* C30: no step takes the ready flag from true to false, a further call of
\* initialize() and the steps that follow it included.  (Nothing in the
\* sources removes an element from the page, so what the first call found
\* the further call finds again and its catch is not entered.)
C30_ReadyMonotonic ==
    [][ready => ready']_vars

C30_Witness ==
    /\ ready /\ initializeCalls > 0 /\ uiPc = "done"
    /\ \E b \in ManifestSet : attached[b] = 2

\* C31: the initialization promise, once fulfilled or rejected, keeps its
\* state; it is fulfilled only while ready is true and rejected only while
\* ready is false.
C31_PromiseAgreesWithReady ==
    [][/\ initializationPromise \in {"fulfilled", "rejected"}
            => initializationPromise' = initializationPromise
       /\ initializationPromise' = "fulfilled" => ready'
       /\ initializationPromise' = "rejected" => ~ready']_vars

C31_Witness ==
    /\ initializationPromise = "rejected" /\ ~ready /\ uiPc = "failed"
    /\ StartupTaskDone

\* C32: when initialize() has set ready and is about to return, the loading
\* screen is the only visible screen and every registered modal is hidden.
C32_LoadingShownAfterInit ==
    (ready /\ uiPc = "resolving")
        => /\ VisibleScreens = {"loading"}
           /\ modals # {}
           /\ \A m \in modals : display[m] = "none"

C32_Witness ==
    /\ ready /\ uiPc = "resolving"
    /\ VisibleScreens = {"loading"}
    /\ modals = modalElements /\ \A m \in modals : display[m] = "none"

\* C33: on a page that holds every modal of the catalog, once ready,
\* showModal called with the catalog name horseDetail (as showHorseDetails
\* calls it) makes the horse-detail modal visible.
C33_CatalogNameShowsModal ==
    [][(ready /\ modalElements \subseteq dom /\ ShowModal("horseDetail"))
          => display'["horseDetailModal"] = "flex"]_vars

\* C34: when every sound has loaded and the startup, initialize() included,
\* has run to its end with ready set, the main menu is the one visible
\* screen.
C34_MainMenuAfterStartup ==
    (/\ StartupTaskDone /\ allPromise.state = "resolved" /\ game
     /\ ready /\ initializationPromise = "fulfilled")
        => VisibleScreens = {"mainMenu"}

\* C35: once a controller exists, its currentScreen field names the one
\* screen that is visible.
C35_CurrentScreenIsVisibleScreen ==
    currentScreen # "none" => VisibleScreens = {currentScreen}

\* C36: while an initialize() that failed is unwinding, and ever after, no
\* handler of the binding manifest is attached, nothing is queued for retry
\* and the retry timer is not armed.
C36_FailedInitLeavesNoRetry ==
    (uiPc \in {"threw", "rejecting", "failed"} \/ initializationPromise = "rejected")
        => /\ \A b \in ManifestSet : attached[b] = 0
           /\ retryQueue = <<>>
           /\ ~retryInterval

C36_Witness ==
    /\ initializationPromise = "rejected" /\ uiPc = "failed"
    /\ ScreenSet \subseteq dom /\ "modal-container" \notin dom
    /\ \E b \in ManifestSet : b \notin dom
    /\ \A b \in ManifestSet : attached[b] = 0

C38_MainMenuOnlyWhenAllLoaded ==
    [][(pc = "LoadingAssets" /\ pc' = "Construct" /\ display' # display)
          => /\ loadedAssets = totalAssets
             /\ \A i \in Assets : promise[i] # "rejected"]_vars

\* C39: in a retry round the loop attempts every entry that was queued at
\* the start of the round exactly once; the entries whose target exists get
\* their handler once and leave the queue, and the others stay in the queue
\* in the order they had.
C39_RoundAttemptsEachEntryOnce ==
    [][retryCount' = retryCount + 1
          => LET r == RetryLoop(retryQueue, Len(retryQueue), attached, dom)
                 Missing(b) == b \notin dom
             IN /\ Len(r.tried) = Len(retryQueue)
                /\ \A b \in Range(retryQueue) : Occurrences(r.tried, b) = 1
                /\ retryQueue' = SelectSeq(retryQueue, Missing)
                /\ \A b \in ManifestSet :
                      attached'[b] = IF b \in Range(retryQueue) /\ b \in dom
                                     THEN attached[b] + 1 ELSE attached[b]]_vars

C39_Witness ==
    /\ retryCount = 1 /\ retryInterval /\ Len(retryQueue) = 1
    /\ retryQueue[1] \notin dom
    /\ \A b \in ManifestSet : b \in dom => attached[b] = 1
    /\ Cardinality(ManifestSet \cap dom) = Len(manifest) - 1

====
